---- MODULE Spec2Model ----
(***************************************************************************)
(* Clinical-visit chain of the veterinary clinic backend:                  *)
(*   Solicitud_atencion -> Triaje -> Consulta -> {Diagnostico,Tratamiento} *)
(*   -> Historial_clinico, and Consulta -> Servicio_Solicitado -> Cita.    *)
(* Every route handler is `async def` with blocking ORM calls and the      *)
(* server is started as one uvicorn process (main.py:865), so handlers do  *)
(* not interleave; a handler that commits several times is modelled one    *)
(* commit per step, because every commit is visible in the database and a  *)
(* failure between two commits leaves the earlier ones stored.             *)
(* Nothing in the code ties the database to one server process: the        *)
(* specifications SpecConcurrente and SpecConsultaConcurrente run          *)
(* create_triaje and create_consulta in two processes, each with its own   *)
(* session (get_db), on the same database.                                 *)
(***************************************************************************)
EXTENDS Integers, FiniteSets, Sequences, TLC

\* ------------------------------------------------------------------ bounds
MaxSolicitudes == 2
MaxTriajes == 2
MaxConsultas == 2
MaxDiagnosticos == 1
MaxTratamientos == 1
MaxServiciosSolicitados == 1
MaxMascotas == 4

\* ------------------------------------------------- rows that exist up front
\* Pets, receptionists, pathologies and services are managed by other
\* resource groups; the chain only looks them up by primary key.
Mascotas == {1, 2}
Recepcionistas == {1}
Patologias == {1}
Servicios == {[id |-> 1, activo |-> TRUE], [id |-> 2, activo |-> FALSE]}
VeterinariosIniciales == {[id |-> 1, disposicion |-> "Libre"],
                          [id |-> 2, disposicion |-> "Libre"]}

\* the owner and the breed of the pets above; the owner-pet relation is the
\* table Cliente_Mascota
Clientes == {1}
Razas == {1}
MascotasIniciales == {[id |-> m, id_raza |-> 1] : m \in Mascotas}
ClienteMascotaInicial == {[id_cliente |-> 1, id_mascota |-> m] : m \in Mascotas}

\* ids a client may send: the ones above and one that resolves to nothing
IdsCliente == Clientes \cup {2}
IdsRaza == Razas \cup {2}
IdsMascotaCreada == 1..(MaxMascotas + 1)
IdsMascota == Mascotas \cup {3}
IdsRecepcionista == Recepcionistas \cup {2}
IdsVeterinario == {1, 2, 3}
IdsPatologia == Patologias \cup {2}
IdsServicio == {1, 2, 3}
IdsSolicitud == 1..(MaxSolicitudes + 1)
IdsTriaje == 1..(MaxTriajes + 1)
IdsConsulta == 1..(MaxConsultas + 1)
IdsCita == 1..(MaxServiciosSolicitados + 1)

\* Triage vitals.  Temperatures are in tenths of a degree Celsius (38.5 is
\* 385); the values of the example body of TriajeCreate, and the values on
\* either side of each limit.
TemperaturaEjemplo == 385
LatidoEjemplo == 120
Temperaturas == {349, 350, 420, 421}
Latidos == {39, 40, 300, 301}
\* the vitals a body of TriajeUpdate may carry
CamposVitales == {"temperatura", "latido_por_minuto"}

ESTADO_SOLICITUD_CHOICES ==
    {"Pendiente", "En triaje", "En atencion", "Completada", "Cancelada"}
\* what a request body may carry in `estado`: a listed value, null, the
\* empty string, or another value outside the list
EstadosBody == ESTADO_SOLICITUD_CHOICES \cup {"None", "", "Invalido"}

\* query parameters of the list endpoints: page numbers, and page sizes on
\* either side of the limit le=100
Paginas == 1 .. 3
PorPagina == {1, 2, 101}

\* server processes of SpecConcurrente
Workers == {1, 2}

VARIABLES db, call, pre, pending, workers

vars == <<db, call, pre, pending, workers>>

\* ------------------------------------------------------------ table helpers
Exists(table, id) == \E r \in table : r.id = id
Row(table, id) == CHOOSE r \in table : r.id = id
Insert(table, row) == table \cup {row}
Remove(table, id) == {r \in table : r.id # id}
Replace(table, row) == {r \in table : r.id # row.id} \cup {row}

\* body of GET /consultas/{id}/completa: the ids of the triage, the request
\* and the veterinarian (0: null) and the lengths of the three lists
NoVista == [triaje |-> 0, solicitud |-> 0, veterinario |-> 0,
            diagnosticos |-> 0, tratamientos |-> 0, eventos_historial |-> 0]

NoCall == [op |-> "none", pc |-> "done", status |-> 0,
           id_solicitud |-> 0, id_triaje |-> 0, id_consulta |-> 0,
           id_veterinario |-> 0, id_mascota |-> 0, id_otro |-> 0, nuevo |-> 0,
           estado |-> "", repetida |-> FALSE,
           campos |-> {}, temperatura |-> 0, latido |-> 0,
           vista |-> NoVista,
           id_cliente |-> 0, id_raza |-> 0,
           page |-> 0, per_page |-> 0, total_pages |-> 0, triajes |-> <<>>,
           recorrido |-> FALSE, acumulado |-> <<>>]

EmptyDb == [solicitudes |-> {}, triajes |-> {}, consultas |-> {},
            veterinarios |-> VeterinariosIniciales,
            diagnosticos |-> {}, tratamientos |-> {}, historial |-> {},
            servicios_solicitados |-> {}, citas |-> {},
            mascotas |-> MascotasIniciales,
            cliente_mascota |-> ClienteMascotaInicial,
            autoinc |-> [solicitud |-> 1, triaje |-> 1, consulta |-> 1,
                         diagnostico |-> 1, tratamiento |-> 1,
                         historial |-> 1, servicio_solicitado |-> 1,
                         cita |-> 1,
                         mascota |-> Cardinality(Mascotas) + 1]]

\* a server process that has handled no call yet
NoWork == [pc |-> "done", status |-> 0, id_solicitud |-> 0,
           id_veterinario |-> 0, nuevo |-> 0, id_triaje |-> 0,
           id_mascota |-> 0]

Init ==
    /\ db = EmptyDb
    /\ call = NoCall
    /\ pre = EmptyDb
    /\ pending = {}
    /\ workers = [w \in Workers |-> NoWork]

\* A handler ends: the response status is recorded and get_db closes the
\* session, which discards whatever was flushed but not committed.
Finish(c, st, newdb) ==
    /\ call' = [c EXCEPT !.pc = "done", !.status = st]
    /\ db' = newdb
    /\ pre' = newdb
    /\ pending' = {}
    /\ workers' = workers

\* A storage call raises (connection lost, constraint violated, ...); the
\* handler's `except Exception` answers 500 and nothing undoes the commits
\* already made.
Raise(c, newdb) == Finish(c, 500, newdb)

\* A multi-commit handler starts: the state it found is kept for reference.
Begin(c, label, newdb) ==
    /\ call' = [c EXCEPT !.pc = label]
    /\ db' = newdb
    /\ pre' = db
    /\ pending' = pending
    /\ workers' = workers

\* A multi-commit handler moves on to its next commit.
Goto(c, label, newdb) ==
    /\ call' = [c EXCEPT !.pc = label]
    /\ db' = newdb
    /\ pre' = pre
    /\ pending' = pending
    /\ workers' = workers

\* ------------------------------------------------------------------- CRUD
\* CRUDBase.get: the row with that primary key, or None (id 0)
get(table, id) == IF Exists(table, id) THEN Row(table, id) ELSE [id |-> 0]

exists_for_solicitud_por_id(d, id_solicitud) ==
    \E t \in d.triajes : t.id = id_solicitud

exists_for_solicitud(d, id_solicitud) ==
    \E t \in d.triajes : t.id_solicitud = id_solicitud

\* SolicitudCreate.validate_estado and SolicitudUpdate.validate_estado
\* (`if v and v not in ESTADO_SOLICITUD_CHOICES`): null and the empty string
\* pass, like the listed values
SolicitudCreate_validate_estado(v) ==
    ~(v \notin {"None", ""} /\ v \notin ESTADO_SOLICITUD_CHOICES)

\* the column Solicitud_atencion.estado is an enum of the five values: the
\* storage refuses any other string
estado_solicitud_enum(v) ==
    v \in {"Pendiente", "En triaje", "En atencion", "Completada", "Cancelada"}

\* ---------------------------------------------------------- create_solicitud
\* SolicitudCreate validates `estado` against the listed values (null passes
\* and the column default applies); the handler then checks the pet and the
\* receptionist and inserts the row with the body's fields.
create_solicitud(m, rc, e) ==
    /\ call.pc = "done"
    /\ LET c == [NoCall EXCEPT !.op = "create_solicitud", !.id_mascota = m,
                               !.estado = e]
           id == db.autoinc.solicitud
           row == [id |-> id, id_mascota |-> m,
                   estado |-> IF e = "None" THEN "Pendiente" ELSE e]
       IN  IF ~SolicitudCreate_validate_estado(e)
           THEN Finish(c, 422, db)
           ELSE IF m \notin Mascotas
           THEN Finish(c, 400, db)
           ELSE IF rc \notin Recepcionistas
           THEN Finish(c, 400, db)
           ELSE IF ~estado_solicitud_enum(row.estado)
           THEN Raise(c, db)
           ELSE \/ /\ id <= MaxSolicitudes
                   /\ Finish([c EXCEPT !.nuevo = id, !.id_solicitud = id], 201,
                             [db EXCEPT !.solicitudes = Insert(@, row),
                                        !.autoinc.solicitud = id + 1])
                \/ Raise(c, db)

\* ------------------------------------------------------- triaje_schema.py
\* TriajeCreate.validate_temperatura: TRUE when the value passes
TriajeCreate_validate_temperatura(v) == ~(v < 350 \/ v > 420)

\* TriajeCreate.validate_latidos
TriajeCreate_validate_latidos(v) == ~(v < 40 \/ v > 300)

\* TriajeUpdate.validate_latidos; TriajeUpdate declares validators for the
\* weight and the heart rate only, so a temperature always passes
TriajeUpdate_validate_latidos(v) == ~(v < 40 \/ v > 300)

\* datetime.now() read by a handler, as the DateTime column stores it (whole
\* seconds): never earlier than a stored timestamp
UltimaFecha(d) ==
    IF d.triajes = {} THEN 0
    ELSE CHOOSE f \in {t.fecha_hora_triaje : t \in d.triajes} :
             \A t \in d.triajes : t.fecha_hora_triaje <= f

\* ------------------------------------------------------------ create_triaje
create_triaje_en_triaje(s, v, temperatura, latido, ahora) ==
    /\ call.pc = "done"
    /\ LET c == [NoCall EXCEPT !.op = "create_triaje", !.id_solicitud = s,
                               !.id_veterinario = v, !.campos = CamposVitales,
                               !.temperatura = temperatura, !.latido = latido]
           id == db.autoinc.triaje
           row == [id |-> id, id_solicitud |-> s, id_veterinario |-> v,
                   temperatura |-> temperatura, latido_por_minuto |-> latido,
                   fecha_hora_triaje |-> ahora]
       IN  IF ~TriajeCreate_validate_latidos(latido)
              \/ ~TriajeCreate_validate_temperatura(temperatura)
           THEN Finish(c, 422, db)
           ELSE IF exists_for_solicitud(db, s)
           THEN Finish(c, 400, db)
           ELSE IF get(db.solicitudes, s).id = 0
           THEN Finish(c, 400, db)
           ELSE IF get(db.veterinarios, v).id = 0
           THEN Finish(c, 400, db)
           ELSE \/ /\ id <= MaxTriajes
                   /\ Finish([c EXCEPT !.nuevo = id, !.id_triaje = id], 201,
                             [db EXCEPT !.triajes = Insert(@, row),
                                        !.autoinc.triaje = id + 1,
                                        !.solicitudes =
                                            {IF r.id = s
                                             THEN [r EXCEPT !.estado = "En triaje"]
                                             ELSE r : r \in @}])
                \/ Raise(c, db)

\* `ahora` is the clock reading the handler stamps on the row
create_triaje(s, v, temperatura, latido, ahora) ==
    /\ call.pc = "done"
    /\ LET c == [NoCall EXCEPT !.op = "create_triaje", !.id_solicitud = s,
                               !.id_veterinario = v, !.campos = CamposVitales,
                               !.temperatura = temperatura, !.latido = latido]
           id == db.autoinc.triaje
           row == [id |-> id, id_solicitud |-> s, id_veterinario |-> v,
                   temperatura |-> temperatura, latido_por_minuto |-> latido,
                   fecha_hora_triaje |-> ahora]
       IN  IF ~TriajeCreate_validate_latidos(latido)
              \/ ~TriajeCreate_validate_temperatura(temperatura)
           THEN Finish(c, 422, db)
           ELSE IF exists_for_solicitud(db, s)
           THEN Finish(c, 400, db)
           ELSE IF get(db.solicitudes, s).id = 0
           THEN Finish(c, 400, db)
           ELSE IF get(db.veterinarios, v).id = 0
           THEN Finish(c, 400, db)
           ELSE \/ /\ id <= MaxTriajes
                   /\ Finish([c EXCEPT !.nuevo = id, !.id_triaje = id], 201,
                             [db EXCEPT !.triajes = Insert(@, row),
                                        !.autoinc.triaje = id + 1])
                \/ Raise(c, db)

\* ------------------------------------- create_triaje in a server process
\* The handler of process w up to its last check: the SELECT of
\* exists_for_solicitud, then the request and the veterinarian.
create_triaje_check(w, s, v) ==
    /\ call.pc = "done"
    /\ workers[w].pc = "done"
    /\ LET c == [NoWork EXCEPT !.id_solicitud = s, !.id_veterinario = v]
       IN  workers' = [workers EXCEPT ![w] =
               IF exists_for_solicitud(db, s) THEN [c EXCEPT !.status = 400]
               ELSE IF get(db.solicitudes, s).id = 0 THEN [c EXCEPT !.status = 400]
               ELSE IF get(db.veterinarios, v).id = 0 THEN [c EXCEPT !.status = 400]
               ELSE [c EXCEPT !.pc = "insert"]]
    /\ UNCHANGED <<db, call, pre, pending>>

create_triaje_insert_upsert(w) ==
    /\ workers[w].pc = "insert"
    /\ LET id == db.autoinc.triaje
           row == [id |-> id, id_solicitud |-> workers[w].id_solicitud,
                   id_veterinario |-> workers[w].id_veterinario,
                   temperatura |-> TemperaturaEjemplo,
                   latido_por_minuto |-> LatidoEjemplo,
                   fecha_hora_triaje |-> UltimaFecha(db) + 1]
       IN  \/ /\ id <= MaxTriajes
              /\ db' = [db EXCEPT
                          !.triajes = {t \in @ : t.id_solicitud # row.id_solicitud}
                                      \cup {row},
                          !.autoinc.triaje = id + 1]
              /\ workers' = [workers EXCEPT ![w].pc = "done", ![w].status = 201,
                                            ![w].nuevo = id]
           \/ /\ db' = db
              /\ workers' = [workers EXCEPT ![w].pc = "done", ![w].status = 500]
    /\ pre' = db'
    /\ UNCHANGED <<call, pending>>

\* The rest of the handler of process w: triaje.create adds the row and
\* commits; the table has no unique key on id_solicitud.
create_triaje_insert(w) ==
    /\ workers[w].pc = "insert"
    /\ LET id == db.autoinc.triaje
           row == [id |-> id, id_solicitud |-> workers[w].id_solicitud,
                   id_veterinario |-> workers[w].id_veterinario,
                   temperatura |-> TemperaturaEjemplo,
                   latido_por_minuto |-> LatidoEjemplo,
                   fecha_hora_triaje |-> UltimaFecha(db) + 1]
       IN  \/ /\ id <= MaxTriajes
              /\ db' = [db EXCEPT !.triajes = Insert(@, row),
                                  !.autoinc.triaje = id + 1]
              /\ workers' = [workers EXCEPT ![w].pc = "done", ![w].status = 201,
                                            ![w].nuevo = id]
           \/ /\ db' = db
              /\ workers' = [workers EXCEPT ![w].pc = "done", ![w].status = 500]
    /\ pre' = db'
    /\ UNCHANGED <<call, pending>>

\* -------------------------------------------------------------- get_triajes
\* ORDER BY fecha_hora_triaje DESC: the orders in which the storage may
\* return the rows of the table (ids).  Rows with the same timestamp have no
\* order of their own, and nothing else is in the ORDER BY.
OrderByFechaDesc(table) ==
    {f \in [1 .. Cardinality(table) -> {t.id : t \in table}] :
        /\ \A i, j \in DOMAIN f : i # j => f[i] # f[j]
        /\ \A i, j \in DOMAIN f :
               i < j => get(table, f[i]).fecha_hora_triaje
                            >= get(table, f[j]).fecha_hora_triaje}

\* .offset(skip).limit(per_page) of the rows in that order
OffsetLimit(filas, skip, per_page) ==
    [i \in 1 .. (IF Len(filas) - skip < 0 THEN 0
                 ELSE IF Len(filas) - skip < per_page THEN Len(filas) - skip
                 ELSE per_page) |-> filas[skip + i]]

\* GET /triaje: one page.  The call keeps the pages of a walk (page 1, then
\* each next page with the same per_page) concatenated in `acumulado`.
get_triajes(page, per_page) ==
    /\ call.pc = "done"
    /\ LET c == [NoCall EXCEPT !.op = "get_triajes", !.page = page,
                               !.per_page = per_page]
           skip == (page - 1) * per_page
           total == Cardinality(db.triajes)
           sigue == /\ call.op = "get_triajes" /\ call.status = 200
                    /\ call.recorrido
                    /\ call.per_page = per_page /\ call.page + 1 = page
       IN  IF page < 1 \/ per_page < 1 \/ per_page > 100
           THEN Finish(c, 422, db)
           ELSE \/ \E filas \in OrderByFechaDesc(db.triajes) :
                     LET triajes == OffsetLimit(filas, skip, per_page)
                     IN  Finish([c EXCEPT
                                   !.triajes = triajes,
                                   !.total_pages =
                                       (total + per_page - 1) \div per_page,
                                   !.recorrido = (page = 1 \/ sigue),
                                   !.acumulado =
                                       IF page = 1 THEN triajes
                                       ELSE IF sigue
                                       THEN call.acumulado \o triajes
                                       ELSE <<>>],
                                200, db)
                \/ Raise(c, db)

\* ------------------------------------------------------------ update_triaje
\* PUT /triaje/{id}: TriajeUpdate validates the body, triaje.update writes
\* the fields the body carries (`campos`)
update_triaje(t, campos, temperatura, latido) ==
    /\ call.pc = "done"
    /\ LET c == [NoCall EXCEPT !.op = "update_triaje", !.id_triaje = t,
                               !.campos = campos,
                               !.temperatura = temperatura, !.latido = latido]
           triaje_obj == get(db.triajes, t)
           row == [triaje_obj EXCEPT
                     !.temperatura = IF "temperatura" \in campos
                                     THEN temperatura ELSE @,
                     !.latido_por_minuto = IF "latido_por_minuto" \in campos
                                           THEN latido ELSE @]
       IN  IF "latido_por_minuto" \in campos
              /\ ~TriajeUpdate_validate_latidos(latido)
           THEN Finish(c, 422, db)
           ELSE IF triaje_obj.id = 0
           THEN Finish(c, 404, db)
           ELSE \/ Finish(c, 200, [db EXCEPT !.triajes = Replace(@, row)])
                \/ Raise(c, db)

\* ------------------------------------------------------------ delete_triaje
\* triaje.remove raises when the storage enforces the foreign key of a
\* Consulta that references the row; where it does not, the row goes.
delete_triaje(t) ==
    /\ call.pc = "done"
    /\ LET c == [NoCall EXCEPT !.op = "delete_triaje", !.id_triaje = t]
       IN  IF get(db.triajes, t).id = 0
           THEN Finish(c, 404, db)
           ELSE \/ Finish(c, 200, [db EXCEPT !.triajes = Remove(@, t)])
                \/ Raise(c, db)

\* ------------------------------------------------------- delete_veterinario
delete_veterinario_sin_disposicion(v) ==
    /\ call.pc = "done"
    /\ LET c == [NoCall EXCEPT !.op = "delete_veterinario",
                               !.id_veterinario = v]
       IN  IF get(db.veterinarios, v).id = 0
           THEN Finish(c, 404, db)
           ELSE \/ Finish(c, 200, [db EXCEPT !.veterinarios = Remove(@, v)])
                \/ Raise(c, db)

\* DELETE /veterinarios/{id}: 404 when missing, 400 when Ocupado, else
\* veterinario.remove, which raises where the storage enforces the foreign
\* key of a Triaje or Consulta that references the row
delete_veterinario(v) ==
    /\ call.pc = "done"
    /\ LET c == [NoCall EXCEPT !.op = "delete_veterinario",
                               !.id_veterinario = v]
           veterinario_obj == get(db.veterinarios, v)
       IN  IF veterinario_obj.id = 0
           THEN Finish(c, 404, db)
           ELSE IF veterinario_obj.disposicion = "Ocupado"
           THEN Finish(c, 400, db)
           ELSE \/ Finish(c, 200, [db EXCEPT !.veterinarios = Remove(@, v)])
                \/ Raise(c, db)

\* --------------------------------------------------------- delete_solicitud
delete_solicitud(s) ==
    /\ call.pc = "done"
    /\ LET c == [NoCall EXCEPT !.op = "delete_solicitud", !.id_solicitud = s]
       IN  IF get(db.solicitudes, s).id = 0
           THEN Finish(c, 404, db)
           ELSE \/ Finish(c, 200, [db EXCEPT !.solicitudes = Remove(@, s)])
                \/ Raise(c, db)

\* ------------------------------------------------- CRUD used by the pivot
get_by_triaje_por_id(d, triaje_id) ==
    IF \E k \in d.consultas : k.id = triaje_id
    THEN CHOOSE k \in d.consultas : k.id = triaje_id
    ELSE [id |-> 0]

get_by_triaje(d, triaje_id) ==
    IF \E k \in d.consultas : k.id_triaje = triaje_id
    THEN CHOOSE k \in d.consultas : k.id_triaje = triaje_id
    ELSE [id |-> 0]

\* veterinario.cambiar_disposicion: set the flag of that veterinarian, if any
cambiar_disposicion(d, veterinario_id, nueva_disposicion) ==
    [d EXCEPT !.veterinarios =
        {IF r.id = veterinario_id
         THEN [r EXCEPT !.disposicion = nueva_disposicion] ELSE r : r \in @}]

\* solicitud_atencion.cambiar_estado: set the status of that request, if any
cambiar_estado(d, solicitud_id, nuevo_estado) ==
    [d EXCEPT !.solicitudes =
        {IF r.id = solicitud_id
         THEN [r EXCEPT !.estado = nuevo_estado] ELSE r : r \in @}]

add_evento_reemplaza(d, evento) ==
    [d EXCEPT !.historial = {[evento EXCEPT !.id = d.autoinc.historial]},
              !.autoinc.historial = @ + 1]

\* add_evento: one more row in Historial_clinico
add_evento(d, evento) ==
    [d EXCEPT !.historial = Insert(@, [evento EXCEPT !.id = d.autoinc.historial]),
              !.autoinc.historial = @ + 1]

Evento(tipo, mascota_id, veterinario_id) ==
    [id |-> 0, tipo_evento |-> tipo, id_mascota |-> mascota_id,
     id_veterinario |-> veterinario_id,
     id_consulta |-> 0, id_diagnostico |-> 0, id_tratamiento |-> 0]

add_evento_consulta(d, mascota_id, consulta_id, veterinario_id) ==
    add_evento(d, [Evento("Consulta medica", mascota_id, veterinario_id)
                       EXCEPT !.id_consulta = consulta_id])

\* ---------------------------------------------------------- create_consulta
create_consulta_sin_veterinario(t, v) ==
    /\ call.pc = "done"
    /\ LET c == [NoCall EXCEPT !.op = "create_consulta", !.id_triaje = t,
                               !.id_veterinario = v]
           triaje_obj == get(db.triajes, t)
           id == db.autoinc.consulta
           row == [id |-> id, id_triaje |-> t, id_veterinario |-> v]
       IN  IF triaje_obj.id = 0
           THEN Finish(c, 400, db)
           ELSE IF get_by_triaje(db, t).id # 0
           THEN Finish(c, 400, db)
           ELSE \/ /\ id <= MaxConsultas
                   /\ Begin([c EXCEPT !.nuevo = id, !.id_consulta = id,
                                      !.id_solicitud = triaje_obj.id_solicitud],
                            "cc_disposicion",
                            [db EXCEPT !.consultas = Insert(@, row),
                                       !.autoinc.consulta = id + 1])
                \/ Raise(c, db)

\* checks, then commit 1 of 4: the Consulta row
create_consulta(t, v) ==
    /\ call.pc = "done"
    /\ LET c == [NoCall EXCEPT !.op = "create_consulta", !.id_triaje = t,
                               !.id_veterinario = v]
           triaje_obj == get(db.triajes, t)
           id == db.autoinc.consulta
           row == [id |-> id, id_triaje |-> t, id_veterinario |-> v]
       IN  IF triaje_obj.id = 0
           THEN Finish(c, 400, db)
           ELSE IF get(db.veterinarios, v).id = 0
           THEN Finish(c, 400, db)
           ELSE IF get_by_triaje(db, t).id # 0
           THEN Finish(c, 400, db)
           ELSE \/ /\ id <= MaxConsultas
                   /\ Begin([c EXCEPT !.nuevo = id, !.id_consulta = id,
                                      !.id_solicitud = triaje_obj.id_solicitud],
                            "cc_disposicion",
                            [db EXCEPT !.consultas = Insert(@, row),
                                       !.autoinc.consulta = id + 1])
                \/ Raise(c, db)

create_consulta_disposicion_tras_estado ==
    /\ call.pc = "cc_disposicion"
    /\ \/ Goto(call, "cc_estado",
               cambiar_estado(db, call.id_solicitud, "En atencion"))
       \/ Raise(call, db)

\* commit 2 of 4: the veterinarian becomes Ocupado
create_consulta_disposicion ==
    /\ call.pc = "cc_disposicion"
    /\ \/ Goto(call, "cc_estado",
               cambiar_disposicion(db, call.id_veterinario, "Ocupado"))
       \/ Raise(call, db)

create_consulta_estado_todas ==
    /\ call.pc = "cc_estado"
    /\ LET solicitud_obj == get(db.solicitudes, call.id_solicitud)
       IN  IF solicitud_obj.id # 0
           THEN \/ Goto([call EXCEPT !.id_mascota = solicitud_obj.id_mascota],
                        "cc_historial",
                        [db EXCEPT !.solicitudes =
                            {[r EXCEPT !.estado = "En atencion"] : r \in @}])
                \/ Raise(call, db)
           ELSE Goto(call, "cc_historial", db)

\* commit 3 of 4: the parent request becomes En atencion
create_consulta_estado ==
    /\ call.pc = "cc_estado"
    /\ LET solicitud_obj == get(db.solicitudes, call.id_solicitud)
       IN  IF solicitud_obj.id # 0
           THEN \/ Goto([call EXCEPT !.id_mascota = solicitud_obj.id_mascota],
                        "cc_historial",
                        cambiar_estado(db, call.id_solicitud, "En atencion"))
                \/ Raise(call, db)
           ELSE Goto(call, "cc_historial", db)

\* commit 4 of 4: the history event.  consultas.py takes historial_clinico
\* from consulta_crud, whose class has no add_evento_consulta (the call
\* raises AttributeError); the class of historial_crud has it.
create_consulta_historial ==
    /\ call.pc = "cc_historial"
    /\ IF call.id_mascota # 0
       THEN \/ Finish(call, 201,
                      add_evento_consulta(db, call.id_mascota, call.nuevo,
                                          call.id_veterinario))
            \/ Raise(call, db)
       ELSE Finish(call, 201, db)

\* ----------------------------------- create_consulta in a server process
\* The handler of process w up to its last check: the triage, the
\* veterinarian, and the SELECT of get_by_triaje.
create_consulta_check(w, t, v) ==
    /\ call.pc = "done"
    /\ workers[w].pc = "done"
    /\ LET c == [NoWork EXCEPT !.id_triaje = t, !.id_veterinario = v]
           triaje_obj == get(db.triajes, t)
       IN  workers' = [workers EXCEPT ![w] =
               IF triaje_obj.id = 0 THEN [c EXCEPT !.status = 400]
               ELSE IF get(db.veterinarios, v).id = 0 THEN [c EXCEPT !.status = 400]
               ELSE IF get_by_triaje(db, t).id # 0 THEN [c EXCEPT !.status = 400]
               ELSE [c EXCEPT !.pc = "cc_insert",
                              !.id_solicitud = triaje_obj.id_solicitud]]
    /\ UNCHANGED <<db, call, pre, pending>>

create_consulta_insert_upsert(w) ==
    /\ workers[w].pc = "cc_insert"
    /\ LET id == db.autoinc.consulta
           row == [id |-> id, id_triaje |-> workers[w].id_triaje,
                   id_veterinario |-> workers[w].id_veterinario]
       IN  \/ /\ id <= MaxConsultas
              /\ db' = [db EXCEPT
                          !.consultas = {k \in @ : k.id_triaje # row.id_triaje}
                                        \cup {row},
                          !.autoinc.consulta = id + 1]
              /\ workers' = [workers EXCEPT ![w].pc = "cc_disposicion",
                                            ![w].nuevo = id]
           \/ /\ db' = db
              /\ workers' = [workers EXCEPT ![w].pc = "done", ![w].status = 500]
    /\ pre' = db'
    /\ UNCHANGED <<call, pending>>

\* commit 1 of 4 in process w: consulta.create adds the row; the table has no
\* unique key on id_triaje
create_consulta_insert(w) ==
    /\ workers[w].pc = "cc_insert"
    /\ LET id == db.autoinc.consulta
           row == [id |-> id, id_triaje |-> workers[w].id_triaje,
                   id_veterinario |-> workers[w].id_veterinario]
       IN  \/ /\ id <= MaxConsultas
              /\ db' = [db EXCEPT !.consultas = Insert(@, row),
                                  !.autoinc.consulta = id + 1]
              /\ workers' = [workers EXCEPT ![w].pc = "cc_disposicion",
                                            ![w].nuevo = id]
           \/ /\ db' = db
              /\ workers' = [workers EXCEPT ![w].pc = "done", ![w].status = 500]
    /\ pre' = db'
    /\ UNCHANGED <<call, pending>>

\* commit 2 of 4 in process w
create_consulta_disposicion_proceso(w) ==
    /\ workers[w].pc = "cc_disposicion"
    /\ \/ /\ db' = cambiar_disposicion(db, workers[w].id_veterinario, "Ocupado")
          /\ workers' = [workers EXCEPT ![w].pc = "cc_estado"]
       \/ /\ db' = db
          /\ workers' = [workers EXCEPT ![w].pc = "done", ![w].status = 500]
    /\ pre' = db'
    /\ UNCHANGED <<call, pending>>

\* commit 3 of 4 in process w
create_consulta_estado_proceso(w) ==
    /\ workers[w].pc = "cc_estado"
    /\ LET solicitud_obj == get(db.solicitudes, workers[w].id_solicitud)
       IN  IF solicitud_obj.id # 0
           THEN \/ /\ db' = cambiar_estado(db, workers[w].id_solicitud,
                                           "En atencion")
                   /\ workers' = [workers EXCEPT
                                     ![w].pc = "cc_historial",
                                     ![w].id_mascota = solicitud_obj.id_mascota]
                \/ /\ db' = db
                   /\ workers' = [workers EXCEPT ![w].pc = "done",
                                                 ![w].status = 500]
           ELSE /\ db' = db
                /\ workers' = [workers EXCEPT ![w].pc = "cc_historial"]
    /\ pre' = db'
    /\ UNCHANGED <<call, pending>>

\* commit 4 of 4 in process w
create_consulta_historial_proceso(w) ==
    /\ workers[w].pc = "cc_historial"
    /\ IF workers[w].id_mascota # 0
       THEN \/ /\ db' = add_evento_consulta(db, workers[w].id_mascota,
                                            workers[w].nuevo,
                                            workers[w].id_veterinario)
               /\ workers' = [workers EXCEPT ![w].pc = "done",
                                             ![w].status = 201]
            \/ /\ db' = db
               /\ workers' = [workers EXCEPT ![w].pc = "done",
                                             ![w].status = 500]
       ELSE /\ db' = db
            /\ workers' = [workers EXCEPT ![w].pc = "done", ![w].status = 201]
    /\ pre' = db'
    /\ UNCHANGED <<call, pending>>

\* -------------------------------------------------------- finalizar_consulta
finalizar_consulta_una_vez(k) ==
    /\ call.pc = "done"
    /\ LET c == [NoCall EXCEPT !.op = "finalizar_consulta", !.id_consulta = k,
                               !.repetida = (call.op = "finalizar_consulta"
                                             /\ call.id_consulta = k
                                             /\ call.status = 200)]
           consulta_obj == get(db.consultas, k)
       IN  IF consulta_obj.id = 0
           THEN Finish(c, 404, db)
           ELSE IF get(db.veterinarios, consulta_obj.id_veterinario).disposicion
                       = "Libre"
           THEN Finish(c, 400, db)
           ELSE \/ Begin([c EXCEPT !.id_veterinario = consulta_obj.id_veterinario,
                                   !.id_triaje = consulta_obj.id_triaje],
                         "fz_estado",
                         cambiar_disposicion(db, consulta_obj.id_veterinario,
                                             "Libre"))
                \/ Raise(c, db)

finalizar_consulta_sin_404(k) ==
    /\ call.pc = "done"
    /\ LET c == [NoCall EXCEPT !.op = "finalizar_consulta", !.id_consulta = k,
                               !.repetida = (call.op = "finalizar_consulta"
                                             /\ call.id_consulta = k
                                             /\ call.status = 200)]
           consulta_obj == get(db.consultas, k)
       IN  IF consulta_obj.id = 0
           THEN Finish(c, 200, cambiar_disposicion(db, k, "Libre"))
           ELSE \/ Begin([c EXCEPT !.id_veterinario = consulta_obj.id_veterinario,
                                   !.id_triaje = consulta_obj.id_triaje],
                         "fz_estado",
                         cambiar_disposicion(db, consulta_obj.id_veterinario,
                                             "Libre"))
                \/ Raise(c, db)

\* check, then commit 1 of 2: the veterinarian becomes Libre
finalizar_consulta(k) ==
    /\ call.pc = "done"
    /\ LET c == [NoCall EXCEPT !.op = "finalizar_consulta", !.id_consulta = k,
                               !.repetida = (call.op = "finalizar_consulta"
                                             /\ call.id_consulta = k
                                             /\ call.status = 200)]
           consulta_obj == get(db.consultas, k)
       IN  IF consulta_obj.id = 0
           THEN Finish(c, 404, db)
           ELSE \/ Begin([c EXCEPT !.id_veterinario = consulta_obj.id_veterinario,
                                   !.id_triaje = consulta_obj.id_triaje],
                         "fz_estado",
                         cambiar_disposicion(db, consulta_obj.id_veterinario,
                                             "Libre"))
                \/ Raise(c, db)

finalizar_consulta_estado_sin_triaje ==
    /\ call.pc = "fz_estado"
    /\ \/ Finish([call EXCEPT !.id_solicitud = call.id_triaje], 200,
                  cambiar_estado(db, call.id_triaje, "Completada"))
       \/ Raise(call, db)

\* commit 2 of 2: the parent request becomes Completada
finalizar_consulta_estado ==
    /\ call.pc = "fz_estado"
    /\ LET triaje_obj == get(db.triajes, call.id_triaje)
       IN  IF triaje_obj.id # 0
           THEN \/ Finish([call EXCEPT !.id_solicitud = triaje_obj.id_solicitud],
                          200,
                          cambiar_estado(db, triaje_obj.id_solicitud,
                                         "Completada"))
                \/ Raise(call, db)
           ELSE Finish(call, 200, db)

\* ------------------------------------------------- cambiar_estado_solicitud
cambiar_estado_solicitud_sin_validar(s, e) ==
    /\ call.pc = "done"
    /\ LET c == [NoCall EXCEPT !.op = "cambiar_estado_solicitud",
                               !.id_solicitud = s]
       IN  IF get(db.solicitudes, s).id = 0
           THEN Finish(c, 404, db)
           ELSE \/ Finish(c, 200, cambiar_estado(db, s, e))
                \/ Raise(c, db)

\* PATCH /solicitudes/{id}/estado: CambioEstado validates the new status,
\* CRUDSolicitud.cambiar_estado stores it
cambiar_estado_solicitud(s, e) ==
    /\ call.pc = "done"
    /\ LET c == [NoCall EXCEPT !.op = "cambiar_estado_solicitud",
                               !.id_solicitud = s]
       IN  IF e \notin ESTADO_SOLICITUD_CHOICES
           THEN Finish(c, 422, db)
           ELSE IF get(db.solicitudes, s).id = 0
           THEN Finish(c, 404, db)
           ELSE \/ Finish(c, 200, cambiar_estado(db, s, e))
                \/ Raise(c, db)

\* --------------------------------------------------------- update_solicitud
\* PUT /solicitudes/{id}: SolicitudUpdate validates the body, the handler
\* looks the request up and solicitud.update stores the fields the body sets
\* ("None": no status in the body)
update_solicitud(s, e) ==
    /\ call.pc = "done"
    /\ LET c == [NoCall EXCEPT !.op = "update_solicitud", !.id_solicitud = s,
                               !.estado = e]
           solicitud_obj == get(db.solicitudes, s)
       IN  IF ~SolicitudCreate_validate_estado(e)
           THEN Finish(c, 422, db)
           ELSE IF solicitud_obj.id = 0
           THEN Finish(c, 404, db)
           ELSE IF e = "None"
           THEN Finish(c, 200, db) \/ Raise(c, db)
           ELSE IF ~estado_solicitud_enum(e)
           THEN Raise(c, db)
           ELSE \/ Finish(c, 200,
                          [db EXCEPT !.solicitudes =
                              Replace(@, [solicitud_obj EXCEPT !.estado = e])])
                \/ Raise(c, db)

\* ------------------------------------------- create_diagnostico / tratamiento
add_evento_diagnostico(d, mascota_id, diagnostico_id, veterinario_id) ==
    add_evento(d, [Evento("Diagnostico", mascota_id, veterinario_id)
                       EXCEPT !.id_diagnostico = diagnostico_id])

add_evento_tratamiento(d, mascota_id, tratamiento_id, veterinario_id) ==
    add_evento(d, [Evento("Tratamiento", mascota_id, veterinario_id)
                       EXCEPT !.id_tratamiento = tratamiento_id])

create_diagnostico_sin_patologia(k, p) ==
    /\ call.pc = "done"
    /\ LET c == [NoCall EXCEPT !.op = "create_diagnostico", !.id_consulta = k,
                               !.id_otro = p]
           consulta_obj == get(db.consultas, k)
           id == db.autoinc.diagnostico
           row == [id |-> id, id_consulta |-> k, id_patologia |-> p]
       IN  IF consulta_obj.id = 0
           THEN Finish(c, 404, db)
           ELSE \/ /\ id <= MaxDiagnosticos
                   /\ Begin([c EXCEPT !.nuevo = id,
                                      !.id_triaje = consulta_obj.id_triaje,
                                      !.id_veterinario = consulta_obj.id_veterinario],
                            "cd_historial",
                            [db EXCEPT !.diagnosticos = Insert(@, row),
                                       !.autoinc.diagnostico = id + 1])
                \/ Raise(c, db)

\* checks, then commit 1 of 2: the Diagnostico row
create_diagnostico(k, p) ==
    /\ call.pc = "done"
    /\ LET c == [NoCall EXCEPT !.op = "create_diagnostico", !.id_consulta = k,
                               !.id_otro = p]
           consulta_obj == get(db.consultas, k)
           id == db.autoinc.diagnostico
           row == [id |-> id, id_consulta |-> k, id_patologia |-> p]
       IN  IF consulta_obj.id = 0
           THEN Finish(c, 404, db)
           ELSE IF p \notin Patologias
           THEN Finish(c, 400, db)
           ELSE \/ /\ id <= MaxDiagnosticos
                   /\ Begin([c EXCEPT !.nuevo = id,
                                      !.id_triaje = consulta_obj.id_triaje,
                                      !.id_veterinario = consulta_obj.id_veterinario],
                            "cd_historial",
                            [db EXCEPT !.diagnosticos = Insert(@, row),
                                       !.autoinc.diagnostico = id + 1])
                \/ Raise(c, db)

\* commit 2 of 2: the history event, when the pet can be reached
create_diagnostico_historial ==
    /\ call.pc = "cd_historial"
    /\ LET triaje_obj == get(db.triajes, call.id_triaje)
           solicitud_obj == IF triaje_obj.id # 0
                            THEN get(db.solicitudes, triaje_obj.id_solicitud)
                            ELSE [id |-> 0]
       IN  IF solicitud_obj.id # 0
           THEN \/ Finish(call, 201,
                          add_evento_diagnostico(db, solicitud_obj.id_mascota,
                                                 call.nuevo, call.id_veterinario))
                \/ Raise(call, db)
           ELSE Finish(call, 201, db)

\* check, then commit 1 of 2: the Tratamiento row
create_tratamiento(k, p) ==
    /\ call.pc = "done"
    /\ LET c == [NoCall EXCEPT !.op = "create_tratamiento", !.id_consulta = k,
                               !.id_otro = p]
           consulta_obj == get(db.consultas, k)
           id == db.autoinc.tratamiento
           row == [id |-> id, id_consulta |-> k, id_patologia |-> p]
       IN  IF consulta_obj.id = 0
           THEN Finish(c, 404, db)
           ELSE \/ /\ id <= MaxTratamientos
                   /\ Begin([c EXCEPT !.nuevo = id,
                                      !.id_triaje = consulta_obj.id_triaje,
                                      !.id_veterinario = consulta_obj.id_veterinario],
                            "ct_historial",
                            [db EXCEPT !.tratamientos = Insert(@, row),
                                       !.autoinc.tratamiento = id + 1])
                \/ Raise(c, db)

create_tratamiento_historial_sin_evento ==
    /\ call.pc = "ct_historial"
    /\ Finish(call, 201, db)

\* commit 2 of 2: the history event, when the pet can be reached
create_tratamiento_historial ==
    /\ call.pc = "ct_historial"
    /\ LET triaje_obj == get(db.triajes, call.id_triaje)
           solicitud_obj == IF triaje_obj.id # 0
                            THEN get(db.solicitudes, triaje_obj.id_solicitud)
                            ELSE [id |-> 0]
       IN  IF solicitud_obj.id # 0
           THEN \/ Finish(call, 201,
                          add_evento_tratamiento(db, solicitud_obj.id_mascota,
                                                 call.nuevo, call.id_veterinario))
                \/ Raise(call, db)
           ELSE Finish(call, 201, db)

\* --------------------------------------------------- get_consulta_completa
\* CRUDDiagnostico.get_by_consulta, CRUDTratamiento.get_by_consulta
get_by_consulta(table, consulta_id) == {r \in table : r.id_consulta = consulta_id}

\* CRUDHistorialClinico.get_eventos_por_consulta
get_eventos_por_consulta(d, consulta_id) ==
    {e \in d.historial : e.id_consulta = consulta_id}

\* The handler asks historial_clinico for get_by_consulta, which neither
\* CRUDHistorialClinico class defines (AttributeError, answered 500); the
\* lookup by consultation that exists is get_eventos_por_consulta.
get_consulta_completa(k) ==
    /\ call.pc = "done"
    /\ LET c == [NoCall EXCEPT !.op = "get_consulta_completa", !.id_consulta = k]
           consulta_obj == get(db.consultas, k)
           triaje_obj == get(db.triajes, consulta_obj.id_triaje)
           solicitud_obj == IF triaje_obj.id # 0
                            THEN get(db.solicitudes, triaje_obj.id_solicitud)
                            ELSE [id |-> 0]
           veterinario_obj == get(db.veterinarios, consulta_obj.id_veterinario)
           vista == [triaje |-> triaje_obj.id,
                     solicitud |-> solicitud_obj.id,
                     veterinario |-> veterinario_obj.id,
                     diagnosticos |->
                         Cardinality(get_by_consulta(db.diagnosticos, k)),
                     tratamientos |->
                         Cardinality(get_by_consulta(db.tratamientos, k)),
                     eventos_historial |->
                         Cardinality(get_eventos_por_consulta(db, k))]
       IN  IF consulta_obj.id = 0
           THEN Finish(c, 404, db)
           ELSE \/ Finish([c EXCEPT !.vista = vista], 200, db)
                \/ Raise(c, db)

\* ------------------------------------------------------ create_servicio_cita
MascotaDeConsulta_sin_triaje(d, consulta_id) ==
    LET consulta_obj == get(d.consultas, consulta_id)
        solicitud_obj == IF consulta_obj.id # 0
                         THEN get(d.solicitudes, consulta_obj.id_triaje)
                         ELSE [id |-> 0]
    IN  IF solicitud_obj.id # 0 THEN solicitud_obj.id_mascota ELSE 0

\* SELECT sa.id_mascota FROM Consulta c JOIN Triaje t JOIN Solicitud_atencion sa
\* WHERE c.id_consulta = :consulta_id   (0: no row)
MascotaDeConsulta(d, consulta_id) ==
    LET consulta_obj == get(d.consultas, consulta_id)
        triaje_obj == IF consulta_obj.id # 0
                      THEN get(d.triajes, consulta_obj.id_triaje)
                      ELSE [id |-> 0]
        solicitud_obj == IF triaje_obj.id # 0
                         THEN get(d.solicitudes, triaje_obj.id_solicitud)
                         ELSE [id |-> 0]
    IN  IF solicitud_obj.id # 0 THEN solicitud_obj.id_mascota ELSE 0

ServicioActivo_sin_activo(id_servicio) ==
    \E sv \in Servicios : sv.id = id_servicio

ServicioActivo(id_servicio) ==
    \E sv \in Servicios : sv.id = id_servicio /\ sv.activo

create_servicio_cita_con_commit(k, sv) ==
    /\ call.pc = "done"
    /\ LET c == [NoCall EXCEPT !.op = "create_servicio_cita", !.id_consulta = k,
                               !.id_otro = sv]
           id_mascota == MascotaDeConsulta(db, k)
           id == db.autoinc.servicio_solicitado
           row == [id |-> id, id_consulta |-> k, id_servicio |-> sv,
                   estado_examen |-> "Solicitado"]
       IN  IF get(db.consultas, k).id = 0
           THEN Finish(c, 404, db)
           ELSE IF ~ServicioActivo(sv)
           THEN Finish(c, 404, db)
           ELSE IF id_mascota = 0
           THEN Finish(c, 404, db)
           ELSE \/ /\ id <= MaxServiciosSolicitados
                   /\ call' = [c EXCEPT !.pc = "sc_commit", !.nuevo = id,
                                        !.id_mascota = id_mascota]
                   /\ db' = [db EXCEPT !.servicios_solicitados = Insert(@, row),
                                       !.autoinc.servicio_solicitado = id + 1]
                   /\ pre' = db
                   /\ pending' = {}
                   /\ workers' = workers
                \/ Raise(c, db)

\* checks, then db.add + db.flush of the Servicio_Solicitado row: it has its
\* id but is not committed
create_servicio_cita(k, sv) ==
    /\ call.pc = "done"
    /\ LET c == [NoCall EXCEPT !.op = "create_servicio_cita", !.id_consulta = k,
                               !.id_otro = sv]
           id_mascota == MascotaDeConsulta(db, k)
           id == db.autoinc.servicio_solicitado
           row == [id |-> id, id_consulta |-> k, id_servicio |-> sv,
                   estado_examen |-> "Solicitado"]
       IN  IF get(db.consultas, k).id = 0
           THEN Finish(c, 404, db)
           ELSE IF ~ServicioActivo(sv)
           THEN Finish(c, 404, db)
           ELSE IF id_mascota = 0
           THEN Finish(c, 404, db)
           ELSE \/ /\ id <= MaxServiciosSolicitados
                   /\ call' = [c EXCEPT !.pc = "sc_commit", !.nuevo = id,
                                        !.id_mascota = id_mascota]
                   /\ db' = [db EXCEPT !.autoinc.servicio_solicitado = id + 1]
                   /\ pre' = db
                   /\ pending' = {row}
                   /\ workers' = workers
                \/ Raise(c, db)

\* db.add of the Cita row and the one db.commit for both rows
create_servicio_cita_commit ==
    /\ call.pc = "sc_commit"
    /\ LET id == db.autoinc.cita
           cita == [id |-> id, id_mascota |-> call.id_mascota,
                    id_servicio_solicitado |-> call.nuevo,
                    estado_cita |-> "Programada"]
       IN  \/ Finish(call, 201,
                     [db EXCEPT !.servicios_solicitados = @ \cup pending,
                                !.citas = Insert(@, cita),
                                !.autoinc.cita = id + 1])
           \/ Raise(call, db)

\* ------------------------------------------------------------- delete_cita
delete_cita(ci) ==
    /\ call.pc = "done"
    /\ LET c == [NoCall EXCEPT !.op = "delete_cita", !.id_otro = ci]
       IN  IF get(db.citas, ci).id = 0
           THEN Finish(c, 404, db)
           ELSE \/ Finish(c, 200, [db EXCEPT !.citas = Remove(@, ci)])
                \/ Raise(c, db)

\* ----------------------------------------- cancelar_cita / marcar_atendida
cancelar_cita_sin_estado(ci) ==
    /\ call.pc = "done"
    /\ LET c == [NoCall EXCEPT !.op = "cancelar_cita", !.id_otro = ci]
           cita == get(db.citas, ci)
       IN  IF cita.id # 0
           THEN \/ Finish(c, 200,
                          [db EXCEPT !.citas =
                              Replace(@, [cita EXCEPT !.estado_cita = "Cancelada"])])
                \/ Raise(c, db)
           ELSE Finish(c, 404, db)

\* CRUDCita.cancelar_cita: a Programada appointment becomes Cancelada; any
\* other, or none, is returned as it is (status 200: a row is returned, 404:
\* None is returned)
cancelar_cita(ci) ==
    /\ call.pc = "done"
    /\ LET c == [NoCall EXCEPT !.op = "cancelar_cita", !.id_otro = ci]
           cita == get(db.citas, ci)
       IN  IF cita.id # 0 /\ cita.estado_cita = "Programada"
           THEN \/ Finish(c, 200,
                          [db EXCEPT !.citas =
                              Replace(@, [cita EXCEPT !.estado_cita = "Cancelada"])])
                \/ Raise(c, db)
           ELSE Finish(c, IF cita.id # 0 THEN 200 ELSE 404, db)

\* CRUDCita.marcar_atendida: a Programada appointment becomes Atendida
marcar_atendida(ci) ==
    /\ call.pc = "done"
    /\ LET c == [NoCall EXCEPT !.op = "marcar_atendida", !.id_otro = ci]
           cita == get(db.citas, ci)
       IN  IF cita.id # 0 /\ cita.estado_cita = "Programada"
           THEN \/ Finish(c, 200,
                          [db EXCEPT !.citas =
                              Replace(@, [cita EXCEPT !.estado_cita = "Atendida"])])
                \/ Raise(c, db)
           ELSE Finish(c, IF cita.id # 0 THEN 200 ELSE 404, db)

\* ----------------------------------------------------------- create_mascota
\* POST /mascotas: the owner is checked; the breed check raises its 400
\* inside `try: ... except Exception: pass`, which swallows it, so the call
\* goes on whatever the breed.  Commit 1 of 2 is mascota.create: a storage
\* that enforces the foreign key id_raza raises on a missing breed, one that
\* does not stores the row.
create_mascota(cl, rz) ==
    /\ call.pc = "done"
    /\ LET c == [NoCall EXCEPT !.op = "create_mascota", !.id_cliente = cl,
                               !.id_raza = rz]
           id == db.autoinc.mascota
           row == [id |-> id, id_raza |-> rz]
       IN  IF cl \notin Clientes
           THEN Finish(c, 400, db)
           ELSE \/ /\ id <= MaxMascotas
                   /\ Begin([c EXCEPT !.nuevo = id, !.id_mascota = id],
                            "cm_relacion",
                            [db EXCEPT !.mascotas = Insert(@, row),
                                       !.autoinc.mascota = id + 1])
                \/ Raise(c, db)

\* commit 2 of 2: the Cliente_Mascota row
create_mascota_relacion ==
    /\ call.pc = "cm_relacion"
    /\ \/ Finish(call, 201,
                  [db EXCEPT !.cliente_mascota =
                      @ \cup {[id_cliente |-> call.id_cliente,
                               id_mascota |-> call.nuevo]}])
       \/ Raise(call, db)

\* DELETE /mascotas/{id}: mascota.remove deletes the pet's Cliente_Mascota
\* rows and the pet in one commit
delete_mascota(m) ==
    /\ call.pc = "done"
    /\ LET c == [NoCall EXCEPT !.op = "delete_mascota", !.id_mascota = m]
       IN  IF get(db.mascotas, m).id = 0
           THEN Finish(c, 404, db)
           ELSE \/ Finish(c, 200,
                          [db EXCEPT !.mascotas = Remove(@, m),
                                     !.cliente_mascota =
                                         {r \in @ : r.id_mascota # m}])
                \/ Raise(c, db)

\* ============================================================ specifications
\* Spec: the clinical-visit chain, requests created with the default status.
Next ==
    \/ \E m \in IdsMascota, rc \in IdsRecepcionista, e \in {"None", "Invalido"} :
           create_solicitud(m, rc, e)
    \/ \E s \in IdsSolicitud, v \in {1, 3} :
           create_triaje(s, v, TemperaturaEjemplo, LatidoEjemplo,
                         UltimaFecha(db) + 1)
    \/ \E t \in IdsTriaje, v \in IdsVeterinario : create_consulta(t, v)
    \/ create_consulta_disposicion
    \/ create_consulta_estado
    \/ create_consulta_historial
    \/ \E k \in IdsConsulta : finalizar_consulta(k)
    \/ finalizar_consulta_estado

Spec == Init /\ [][Next]_vars

\* SpecSolicitud: the attention-request resource on its own, every status a
\* body may carry.
NextSolicitud ==
    \/ \E m \in IdsMascota, rc \in IdsRecepcionista, e \in EstadosBody :
           create_solicitud(m, rc, e)
    \/ \E s \in IdsSolicitud, e \in EstadosBody \ {"None"} :
           cambiar_estado_solicitud(s, e)
    \/ \E s \in IdsSolicitud : delete_solicitud(s)

SpecSolicitud == Init /\ [][NextSolicitud]_vars

\* SpecClinico: diagnoses and treatments on top of one chain (triage 1,
\* consultation 1, veterinarian 1) of either request; the triage and the
\* requests may be deleted under the consultation.
NextClinico ==
    \/ \E m \in Mascotas : create_solicitud(m, 1, "None")
    \/ \E s \in IdsSolicitud :
           create_triaje(s, 1, TemperaturaEjemplo, LatidoEjemplo,
                         UltimaFecha(db) + 1)
    \/ \E t \in {1, MaxTriajes + 1} : create_consulta(t, 1)
    \/ create_consulta_disposicion
    \/ create_consulta_estado
    \/ create_consulta_historial
    \/ delete_triaje(1)
    \/ \E s \in IdsSolicitud : delete_solicitud(s)
    \/ \E k \in IdsConsulta, p \in IdsPatologia : create_diagnostico(k, p)
    \/ create_diagnostico_historial
    \/ \E k \in IdsConsulta, p \in IdsPatologia : create_tratamiento(k, p)
    \/ create_tratamiento_historial

SpecClinico == Init /\ [][NextClinico]_vars

\* SpecServicio: requested services and their appointments on top of one
\* chain (triage 1, consultation 1, veterinarian 1) of either request; the
\* triage, the requests and the appointments may be deleted.
NextServicio ==
    \/ \E m \in Mascotas : create_solicitud(m, 1, "None")
    \/ \E s \in IdsSolicitud :
           create_triaje(s, 1, TemperaturaEjemplo, LatidoEjemplo,
                         UltimaFecha(db) + 1)
    \/ \E t \in {1, MaxTriajes + 1} : create_consulta(t, 1)
    \/ create_consulta_disposicion
    \/ create_consulta_estado
    \/ create_consulta_historial
    \/ delete_triaje(1)
    \/ \E s \in IdsSolicitud : delete_solicitud(s)
    \/ \E k \in IdsConsulta, sv \in IdsServicio : create_servicio_cita(k, sv)
    \/ create_servicio_cita_commit
    \/ \E ci \in IdsCita : delete_cita(ci)

SpecServicio == Init /\ [][NextServicio]_vars

\* SpecTriaje: the triage resource on top of requests of pet 1, with vitals
\* on either side of every limit.
NextTriaje ==
    \/ create_solicitud(1, 1, "None")
    \/ \E s \in IdsSolicitud, temperatura \in Temperaturas, latido \in Latidos :
           create_triaje(s, 1, temperatura, latido, UltimaFecha(db) + 1)
    \/ \E t \in IdsTriaje, temperatura \in Temperaturas :
           update_triaje(t, {"temperatura"}, temperatura, LatidoEjemplo)
    \/ \E t \in IdsTriaje, latido \in Latidos :
           update_triaje(t, {"latido_por_minuto"}, TemperaturaEjemplo, latido)

SpecTriaje == Init /\ [][NextTriaje]_vars

\* SpecVista: one visit from the request to the finalized consultation, and
\* the complete view of the consultation.
NextVista ==
    \/ create_solicitud(1, 1, "None")
    \/ create_triaje(1, 1, TemperaturaEjemplo, LatidoEjemplo, UltimaFecha(db) + 1)
    \/ create_consulta(1, 1)
    \/ create_consulta_disposicion
    \/ create_consulta_estado
    \/ create_consulta_historial
    \/ create_diagnostico(1, 1)
    \/ create_diagnostico_historial
    \/ create_tratamiento(1, 1)
    \/ create_tratamiento_historial
    \/ finalizar_consulta(1)
    \/ finalizar_consulta_estado
    \/ \E k \in IdsConsulta : get_consulta_completa(k)

SpecVista == Init /\ [][NextVista]_vars

\* SpecConcurrente: create_triaje handled by two server processes at once.
NextConcurrente ==
    \/ \E m \in Mascotas : create_solicitud(m, 1, "None")
    \/ \E w \in Workers, s \in IdsSolicitud, v \in {1, 3} :
           create_triaje_check(w, s, v)
    \/ \E w \in Workers : create_triaje_insert(w)

SpecConcurrente == Init /\ [][NextConcurrente]_vars

\* SpecConsultaConcurrente: create_consulta handled by two server processes
\* at once, on the triages of requests of pet 1.
NextConsultaConcurrente ==
    \/ create_solicitud(1, 1, "None")
    \/ \E s \in IdsSolicitud :
           create_triaje(s, 1, TemperaturaEjemplo, LatidoEjemplo,
                         UltimaFecha(db) + 1)
    \/ \E w \in Workers, t \in IdsTriaje, v \in {1, 3} :
           create_consulta_check(w, t, v)
    \/ \E w \in Workers : create_consulta_insert(w)
    \/ \E w \in Workers : create_consulta_disposicion_proceso(w)
    \/ \E w \in Workers : create_consulta_estado_proceso(w)
    \/ \E w \in Workers : create_consulta_historial_proceso(w)

SpecConsultaConcurrente == Init /\ [][NextConsultaConcurrente]_vars

\* SpecVeterinario: visits of pet 1 with either veterinarian, and the
\* removal of veterinarians.
NextVeterinario ==
    \/ create_solicitud(1, 1, "None")
    \/ \E s \in IdsSolicitud :
           create_triaje(s, 1, TemperaturaEjemplo, LatidoEjemplo,
                         UltimaFecha(db) + 1)
    \/ \E t \in IdsTriaje, v \in {1, 2} : create_consulta(t, v)
    \/ create_consulta_disposicion
    \/ create_consulta_estado
    \/ create_consulta_historial
    \/ \E k \in IdsConsulta : finalizar_consulta(k)
    \/ finalizar_consulta_estado
    \/ \E v \in IdsVeterinario : delete_veterinario(v)

SpecVeterinario == Init /\ [][NextVeterinario]_vars

\* SpecCita: the appointments of the requested services of consultation 1,
\* cancelled and marked attended in any order.
NextCita ==
    \/ create_solicitud(1, 1, "None")
    \/ create_triaje(1, 1, TemperaturaEjemplo, LatidoEjemplo, UltimaFecha(db) + 1)
    \/ create_consulta(1, 1)
    \/ create_consulta_disposicion
    \/ create_consulta_estado
    \/ create_consulta_historial
    \/ \E k \in IdsConsulta, sv \in IdsServicio : create_servicio_cita(k, sv)
    \/ create_servicio_cita_commit
    \/ \E ci \in IdsCita : cancelar_cita(ci)
    \/ \E ci \in IdsCita : marcar_atendida(ci)

SpecCita == Init /\ [][NextCita]_vars

\* SpecMascota: pets created for an owner with a breed, and deleted.
NextMascota ==
    \/ \E cl \in IdsCliente, rz \in IdsRaza : create_mascota(cl, rz)
    \/ create_mascota_relacion
    \/ \E m \in IdsMascotaCreada : delete_mascota(m)

SpecMascota == Init /\ [][NextMascota]_vars

\* SpecSinFallos: the visits of Spec in the runs where no storage call
\* fails, so that every call completes all its steps.
SinFallo == call'.status # 500

NextSinFallos ==
    \/ \E m \in Mascotas : create_solicitud(m, 1, "None") /\ SinFallo
    \/ \E s \in IdsSolicitud, v \in {1, 3} :
           /\ create_triaje(s, v, TemperaturaEjemplo, LatidoEjemplo,
                            UltimaFecha(db) + 1)
           /\ SinFallo
    \/ \E t \in IdsTriaje, v \in IdsVeterinario :
           create_consulta(t, v) /\ SinFallo
    \/ create_consulta_disposicion /\ SinFallo
    \/ create_consulta_estado /\ SinFallo
    \/ create_consulta_historial /\ SinFallo
    \/ \E k \in IdsConsulta : finalizar_consulta(k) /\ SinFallo
    \/ finalizar_consulta_estado /\ SinFallo

SpecSinFallos == Init /\ [][NextSinFallos]_vars

\* SpecCadena: the operations of the clinical chain alone (no status change,
\* update or delete), on requests of pet 1 created with no status, with the
\* status Completada or with one outside the list.
NextCadena ==
    \/ \E e \in {"None", "Completada", "Invalido"} : create_solicitud(1, 1, e)
    \/ \E s \in IdsSolicitud :
           create_triaje(s, 1, TemperaturaEjemplo, LatidoEjemplo,
                         UltimaFecha(db) + 1)
    \/ \E t \in IdsTriaje : create_consulta(t, 1)
    \/ create_consulta_disposicion
    \/ create_consulta_estado
    \/ create_consulta_historial
    \/ \E k \in IdsConsulta : create_diagnostico(k, 1)
    \/ create_diagnostico_historial
    \/ \E k \in IdsConsulta : create_tratamiento(k, 1)
    \/ create_tratamiento_historial
    \/ \E k \in IdsConsulta : finalizar_consulta(k)
    \/ finalizar_consulta_estado

SpecCadena == Init /\ [][NextCadena]_vars

\* SpecEstados: every operation that writes the status of a request, with
\* every status a body may carry.
NextEstados ==
    \/ \E e \in EstadosBody : create_solicitud(1, 1, e)
    \/ \E s \in IdsSolicitud, e \in EstadosBody : update_solicitud(s, e)
    \/ \E s \in IdsSolicitud, e \in EstadosBody \ {"None"} :
           cambiar_estado_solicitud(s, e)
    \/ \E s \in IdsSolicitud :
           create_triaje(s, 1, TemperaturaEjemplo, LatidoEjemplo,
                         UltimaFecha(db) + 1)
    \/ \E t \in IdsTriaje : create_consulta(t, 1)
    \/ create_consulta_disposicion
    \/ create_consulta_estado
    \/ create_consulta_historial
    \/ \E k \in IdsConsulta : finalizar_consulta(k)
    \/ finalizar_consulta_estado

SpecEstados == Init /\ [][NextEstados]_vars

\* SpecPaginacion: triages stamped by a clock of whole seconds, which may
\* read the same second twice, and the list endpoint walked page by page.
NextPaginacion ==
    \/ create_solicitud(1, 1, "None")
    \/ \E s \in IdsSolicitud, ahora \in {UltimaFecha(db), UltimaFecha(db) + 1} :
           create_triaje(s, 1, TemperaturaEjemplo, LatidoEjemplo, ahora)
    \/ \E page \in Paginas, per_page \in PorPagina : get_triajes(page, per_page)

SpecPaginacion == Init /\ [][NextPaginacion]_vars

\* ===================================================================== claims
\* In a step that ends a call, `pre` is the database the call found and db'
\* the database it leaves; call' holds the call and its response.
Completes(op) == call'.pc = "done" /\ call'.op = op

\* C1: a request never has more than one triage, and a create-triage call
\* for a request that already has a triage is rejected with an error and
\* leaves the Triaje table as it was.
C1_Step ==
    /\ \A t1, t2 \in db'.triajes :
           t1.id_solicitud = t2.id_solicitud => t1 = t2
    /\ (/\ Completes("create_triaje")
        /\ \E t \in pre.triajes : t.id_solicitud = call'.id_solicitud)
       => (call'.status >= 400 /\ db'.triajes = pre.triajes)

C1_Theorem == [][C1_Step]_vars

C1_Witness ==
    /\ call.pc = "done" /\ call.op = "create_triaje" /\ call.status = 400
    /\ \E t \in db.triajes : t.id_solicitud = call.id_solicitud

\* C2: a triage never has more than one consultation, and a
\* create-consultation call for a triage that already has a consultation is
\* rejected with an error and leaves the Consulta table as it was.
C2_Step ==
    /\ \A k1, k2 \in db'.consultas : k1.id_triaje = k2.id_triaje => k1 = k2
    /\ (/\ Completes("create_consulta")
        /\ \E k \in pre.consultas : k.id_triaje = call'.id_triaje)
       => (call'.status >= 400 /\ db'.consultas = pre.consultas)

C2_Theorem == [][C2_Step]_vars

C2_Witness ==
    /\ call.pc = "done" /\ call.op = "create_consulta" /\ call.status = 400
    /\ \E t \in db.triajes : t.id = call.id_triaje
    /\ \E v \in db.veterinarios : v.id = call.id_veterinario
    /\ \E k \in db.consultas : k.id_triaje = call.id_triaje

\* C3: every create-consultation call ends with all four effects (the
\* Consulta row for the triage, the veterinarian Ocupado, the parent request
\* En atencion, exactly one new history event for the request's pet) or with
\* none of the four changed.
C3_AllFour ==
    /\ \E k \in db'.consultas \ pre.consultas : k.id_triaje = call'.id_triaje
    /\ \E v \in db'.veterinarios :
           v.id = call'.id_veterinario /\ v.disposicion = "Ocupado"
    /\ \E t \in pre.triajes, r \in db'.solicitudes :
           /\ t.id = call'.id_triaje /\ r.id = t.id_solicitud
           /\ r.estado = "En atencion"
           /\ Cardinality(db'.historial \ pre.historial) = 1
           /\ \A h \in db'.historial \ pre.historial :
                  h.id_mascota = r.id_mascota
C3_NoneChanged ==
    /\ db'.consultas = pre.consultas
    /\ db'.veterinarios = pre.veterinarios
    /\ db'.solicitudes = pre.solicitudes
    /\ db'.historial = pre.historial

C3_Claim ==
    [][Completes("create_consulta") => (C3_AllFour \/ C3_NoneChanged)]_vars

\* C4: after a successful finalize of consultation c, c's veterinarian is
\* Libre and the request reached through c's triage is Completada.
C4_Theorem ==
    (call.pc = "done" /\ call.op = "finalizar_consulta" /\ call.status = 200)
    => \A k \in db.consultas : k.id = call.id_consulta =>
           /\ \A v \in db.veterinarios :
                  v.id = k.id_veterinario => v.disposicion = "Libre"
           /\ \A t \in db.triajes, r \in db.solicitudes :
                  (t.id = k.id_triaje /\ r.id = t.id_solicitud)
                  => r.estado = "Completada"

C4_Witness ==
    /\ call.pc = "done" /\ call.op = "finalizar_consulta" /\ call.status = 200
    /\ \E k \in db.consultas, t \in db.triajes, r \in db.solicitudes,
          v \in db.veterinarios :
           /\ k.id = call.id_consulta /\ t.id = k.id_triaje
           /\ r.id = t.id_solicitud /\ v.id = k.id_veterinario
           /\ t.id # r.id
           /\ v.disposicion = "Libre" /\ r.estado = "Completada"

\* C5: a finalize call for consultation c that directly follows a successful
\* finalize call for c leaves the database exactly as the first call left it
\* and is not rejected: it answers 200 unless a storage call raises.
C5_Step ==
    (Completes("finalizar_consulta") /\ call'.repetida)
    => (db' = pre /\ call'.status \in {200, 500})

C5_Theorem == [][C5_Step]_vars

C5_Witness ==
    /\ call.pc = "done" /\ call.op = "finalizar_consulta"
    /\ call.repetida /\ call.status = 200

\* C6: the request stored by a successful create-request call has
\* status Pendiente, whatever the body carried.
C6_Claim ==
    (call.pc = "done" /\ call.op = "create_solicitud" /\ call.status = 201)
    => \A r \in db.solicitudes : r.id = call.nuevo => r.estado = "Pendiente"

\* The database a create_servicio_cita call found, seen from any of its steps
SC_Before == IF call'.pc = "done" THEN pre ELSE pre'

\* C7: at every step of a request-service call the database holds, compared
\* with what the call found, either nothing new in Servicio_Solicitado and
\* Cita, or exactly one new Servicio_Solicitado (Solicitado) and exactly one
\* new Cita (Programada) that references it.
C7_Step ==
    call'.op = "create_servicio_cita" =>
        LET nuevos == db'.servicios_solicitados \ SC_Before.servicios_solicitados
            nuevas == db'.citas \ SC_Before.citas
        IN  \/ nuevos = {} /\ nuevas = {}
            \/ /\ Cardinality(nuevos) = 1 /\ Cardinality(nuevas) = 1
               /\ \A ss \in nuevos, ci \in nuevas :
                      /\ ss.estado_examen = "Solicitado"
                      /\ ss.id_consulta = call'.id_consulta
                      /\ ci.estado_cita = "Programada"
                      /\ ci.id_servicio_solicitado = ss.id

C7_Theorem == [][C7_Step]_vars

C7_Witness ==
    /\ call.pc = "done" /\ call.op = "create_servicio_cita"
    /\ call.status = 500 /\ call.nuevo # 0
    /\ db.servicios_solicitados = {} /\ db.citas = {}

\* C8: a request-service call naming a service that is missing or inactive
\* ends with an error and leaves Servicio_Solicitado and Cita as they were.
C8_Step ==
    (/\ Completes("create_servicio_cita")
     /\ ~ \E sv \in Servicios : sv.id = call'.id_otro /\ sv.activo)
    => /\ call'.status >= 400
       /\ db'.servicios_solicitados = pre.servicios_solicitados
       /\ db'.citas = pre.citas

C8_Theorem == [][C8_Step]_vars

C8_Witness ==
    /\ call.pc = "done" /\ call.op = "create_servicio_cita"
    /\ call.status = 404 /\ call.id_otro = 2
    /\ \E k \in db.consultas, t \in db.triajes, r \in db.solicitudes :
           k.id = call.id_consulta /\ t.id = k.id_triaje /\ r.id = t.id_solicitud

\* C9: the appointment a request-service call creates carries the pet of the
\* request reached from the consultation through its triage; when the
\* consultation, its triage or the triage's request is missing the call ends
\* with an error and leaves Servicio_Solicitado and Cita as they were.
C9_Step ==
    Completes("create_servicio_cita") =>
        LET cadena == {<<k, t, r>> \in
                          pre.consultas \X pre.triajes \X pre.solicitudes :
                          /\ k.id = call'.id_consulta
                          /\ t.id = k.id_triaje
                          /\ r.id = t.id_solicitud}
        IN  /\ \A ci \in db'.citas \ pre.citas :
                   \E x \in cadena : ci.id_mascota = x[3].id_mascota
            /\ cadena = {} =>
                   /\ call'.status >= 400
                   /\ db'.servicios_solicitados = pre.servicios_solicitados
                   /\ db'.citas = pre.citas

C9_Theorem == [][C9_Step]_vars

C9_Witness ==
    /\ call.pc = "done" /\ call.op = "create_servicio_cita"
    /\ call.status = 404 /\ call.id_otro = 1
    /\ \E k \in db.consultas :
           /\ k.id = call.id_consulta
           /\ ~ \E t \in db.triajes, r \in db.solicitudes :
                    t.id = k.id_triaje /\ r.id = t.id_solicitud

\* C10: a create-diagnosis or create-treatment call for a consultation id
\* that does not exist, and a create-diagnosis call for a pathology that does
\* not exist, end with an error and leave Diagnostico, Tratamiento and
\* Historial_clinico as they were.
C10_Step ==
    (/\ Completes("create_diagnostico") \/ Completes("create_tratamiento")
     /\ \/ ~ \E k \in pre.consultas : k.id = call'.id_consulta
        \/ call'.op = "create_diagnostico" /\ call'.id_otro \notin Patologias)
    => /\ call'.status >= 400
       /\ db'.diagnosticos = pre.diagnosticos
       /\ db'.tratamientos = pre.tratamientos
       /\ db'.historial = pre.historial

C10_Theorem == [][C10_Step]_vars

C10_Witness ==
    /\ call.pc = "done" /\ call.op = "create_diagnostico"
    /\ call.status = 400 /\ call.id_otro \notin Patologias
    /\ \E k \in db.consultas, t \in db.triajes, r \in db.solicitudes :
           k.id = call.id_consulta /\ t.id = k.id_triaje /\ r.id = t.id_solicitud

\* The consultation of the call that ends, its triage and the triage's
\* request, as the call found them
CadenaDeConsulta ==
    {x \in pre.consultas \X pre.triajes \X pre.solicitudes :
        /\ x[1].id = call'.id_consulta
        /\ x[2].id = x[1].id_triaje
        /\ x[3].id = x[2].id_solicitud}

\* The history event of the call that ends references the row it created
EventoDeLaLlamada(e) ==
    /\ \E x \in CadenaDeConsulta : e.id_mascota = x[3].id_mascota
    /\ call'.op = "create_diagnostico"
           => (e.tipo_evento = "Diagnostico" /\ e.id_diagnostico = call'.nuevo)
    /\ call'.op = "create_tratamiento"
           => (e.tipo_evento = "Tratamiento" /\ e.id_tratamiento = call'.nuevo)

C11_Step ==
    ((Completes("create_diagnostico") \/ Completes("create_tratamiento"))
     /\ call'.status = 201)
    => /\ pre.historial \subseteq db'.historial
       /\ IF CadenaDeConsulta # {}
          THEN /\ Cardinality(db'.historial \ pre.historial) = 1
               /\ \A e \in db'.historial \ pre.historial : EventoDeLaLlamada(e)
          ELSE db'.historial = pre.historial

C12_Theorem == [][db.historial \subseteq db'.historial]_vars

C12_Witness ==
    /\ Cardinality(db.historial) >= 3
    /\ call.pc = "done" /\ call.op = "delete_triaje" /\ call.status = 200

\* A vital the call that ends carried lies outside its range, or on its limit
VitalFueraDeRango ==
    \/ "temperatura" \in call'.campos
       /\ (call'.temperatura < 350 \/ call'.temperatura > 420)
    \/ "latido_por_minuto" \in call'.campos
       /\ (call'.latido < 40 \/ call'.latido > 300)

\* C13: every operation that writes triage vitals rejects a temperature
\* outside [35.0, 42.0] and a heart rate outside [40, 300], writing nothing,
\* and does not reject a body for vitals that lie within the ranges, limits
\* included.
C13_Claim ==
    [][(Completes("create_triaje") \/ Completes("update_triaje"))
       => /\ VitalFueraDeRango => (call'.status >= 400 /\ db' = pre)
          /\ ~VitalFueraDeRango => call'.status # 422]_vars

\* The state the sequence create-request, create-triage, create-consultation,
\* one diagnosis, one treatment, finalize leaves for consultation k when
\* every call succeeds
VisitaCompleta(k) ==
    \E x \in db.consultas \X db.triajes \X db.solicitudes :
        /\ x[1].id = k /\ x[2].id = x[1].id_triaje /\ x[3].id = x[2].id_solicitud
        /\ x[3].estado = "Completada"
        /\ \E v \in db.veterinarios :
               v.id = x[1].id_veterinario /\ v.disposicion = "Libre"
        /\ \E dg \in db.diagnosticos, tr \in db.tratamientos :
               /\ get_by_consulta(db.diagnosticos, k) = {dg}
               /\ get_by_consulta(db.tratamientos, k) = {tr}
               /\ \E e1, e2, e3 \in db.historial :
                      /\ e1.id_consulta = k /\ e2.id_diagnostico = dg.id
                      /\ e3.id_tratamiento = tr.id
                      /\ \A e \in {e1, e2, e3} : e.id_mascota = x[3].id_mascota

\* C14: after the whole visit the complete view of the consultation returns
\* a triage, a request and a veterinarian, exactly one diagnosis, exactly
\* one treatment and at least three history events.
C14_Claim ==
    (/\ call.pc = "done" /\ call.op = "get_consulta_completa"
     /\ call.status = 200 /\ VisitaCompleta(call.id_consulta))
    => /\ call.vista.triaje # 0 /\ call.vista.solicitud # 0
       /\ call.vista.veterinario # 0
       /\ call.vista.diagnosticos = 1 /\ call.vista.tratamientos = 1
       /\ call.vista.eventos_historial >= 3

\* C15: a process that passed the no-existing-triage check inserts its row
\* and succeeds whatever the table holds by then, so two processes that both
\* passed the check for one request both succeed and leave two triages for
\* it (the state C15_Witness).
C15_Step ==
    \A w \in Workers :
        (workers[w].pc = "insert" /\ workers'[w].status = 201)
        => \E t \in db'.triajes :
               /\ t.id = workers'[w].nuevo
               /\ t.id_solicitud = workers[w].id_solicitud
               /\ t \notin db.triajes
               /\ db'.triajes = db.triajes \cup {t}

C15_Theorem == [][C15_Step]_vars

C15_Witness ==
    /\ \A w \in Workers : workers[w].pc = "done" /\ workers[w].status = 201
    /\ workers[1].id_solicitud = workers[2].id_solicitud
    /\ Cardinality({t \in db.triajes :
                       t.id_solicitud = workers[1].id_solicitud}) = 2

C17_Step ==
    (/\ Completes("finalizar_consulta")
     /\ \A k \in pre.consultas : k.id # call'.id_consulta)
    => /\ call'.status = 404
       /\ db'.veterinarios = pre.veterinarios
       /\ db'.solicitudes = pre.solicitudes

C17_Theorem == [][C17_Step]_vars

C17_Witness ==
    /\ call.pc = "done" /\ call.op = "finalizar_consulta" /\ call.status = 404
    /\ \A k \in db.consultas : k.id # call.id_consulta
    /\ \E v \in db.veterinarios : v.disposicion = "Ocupado"
    /\ \E r \in db.solicitudes : r.estado = "En atencion"

\* C18: for a list endpoint and a per_page >= 1, the pages 1..total_pages
\* concatenated in order are the sequence one unpaginated fetch in the default
\* order returns: every item once, none missing, in the same order.
C18_Claim ==
    (/\ call.pc = "done" /\ call.op = "get_triajes" /\ call.status = 200
     /\ call.recorrido /\ call.page = call.total_pages)
    => call.acumulado \in OrderByFechaDesc(db.triajes)

\* the database the call in progress found when it started
Found == IF call.pc = "done" THEN db ELSE pre

\* the effects of a create-consultation call, as visible in database d
ConsultaInserted(d) ==
    \E k \in d.consultas \ Found.consultas : k.id_triaje = call'.id_triaje
VeterinarioOcupado(d) ==
    \E v \in d.veterinarios :
        v.id = call'.id_veterinario /\ v.disposicion = "Ocupado"
SolicitudEnAtencion(d) ==
    \E t \in Found.triajes, r \in d.solicitudes :
        /\ t.id = call'.id_triaje /\ r.id = t.id_solicitud
        /\ r.estado = "En atencion"
EventoAppended(d) ==
    \E h \in d.historial \ Found.historial : h.id_consulta = call'.nuevo

\* C19: the writes of a create-consultation call are committed one at a time
\* in the order Consulta inserted, veterinarian Ocupado, parent request En
\* atencion, history event appended: no later write is visible before an
\* earlier one, and a successful call has made all four.
C19_Step ==
    call'.op = "create_consulta" =>
        /\ Cardinality({x \in {"consultas", "veterinarios", "solicitudes",
                               "historial"} : db'[x] # db[x]}) <= 1
        /\ db'.veterinarios # Found.veterinarios => ConsultaInserted(db')
        /\ db'.solicitudes # Found.solicitudes
               => (VeterinarioOcupado(db') /\ ConsultaInserted(db'))
        /\ db'.historial # Found.historial
               => /\ SolicitudEnAtencion(db') /\ VeterinarioOcupado(db')
                  /\ ConsultaInserted(db')
        /\ call'.status = 201
               => /\ ConsultaInserted(db') /\ VeterinarioOcupado(db')
                  /\ SolicitudEnAtencion(db') /\ EventoAppended(db')

C20_Step ==
    (/\ Completes("create_consulta")
     /\ \/ \A t \in pre.triajes : t.id # call'.id_triaje
        \/ \A v \in pre.veterinarios : v.id # call'.id_veterinario
        \/ \E k \in pre.consultas : k.id_triaje = call'.id_triaje)
    => (call'.status = 400 /\ db' = pre)

C20_Theorem == [][C20_Step]_vars

C20_Witness ==
    /\ call.pc = "done" /\ call.op = "create_consulta" /\ call.status = 400
    /\ \E t \in db.triajes : t.id = call.id_triaje
    /\ \A v \in db.veterinarios : v.id # call.id_veterinario
    /\ \A k \in db.consultas : k.id_triaje # call.id_triaje

\* C21: a successful create-triage call only inserts the Triaje row: the
\* status of the parent request (a Pendiente request stays Pendiente) and the
\* disposition of every veterinarian are after the call what they were before.
C21_Step ==
    (Completes("create_triaje") /\ call'.status = 201)
    => /\ db'.solicitudes = pre.solicitudes
       /\ db'.veterinarios = pre.veterinarios
       /\ \E t \in db'.triajes :
              /\ t.id = call'.nuevo /\ t \notin pre.triajes
              /\ db' = [pre EXCEPT !.triajes = @ \cup {t},
                                   !.autoinc.triaje = @ + 1]

C21_Theorem == [][C21_Step]_vars

C21_Witness ==
    /\ call.pc = "done" /\ call.op = "create_triaje" /\ call.status = 201
    /\ \E r \in db.solicitudes :
           r.id = call.id_solicitud /\ r.estado = "Pendiente"
    /\ \E v \in db.veterinarios : v.disposicion = "Ocupado"

\* C22: create-consultation verifies that the veterinarian exists and is
\* available: a call naming a veterinarian whose disposition is Ocupado is
\* rejected and creates no Consulta.
C22_Claim ==
    [][(/\ Completes("create_consulta")
        /\ \E v \in pre.veterinarios :
               v.id = call'.id_veterinario /\ v.disposicion = "Ocupado")
       => (call'.status >= 400 /\ db'.consultas = pre.consultas)]_vars

\* C23: a process that passed the no-existing-consultation check inserts its
\* row whatever the table holds by then, so two processes that both passed
\* the check for one triage both insert and leave two consultations for it
\* (the state C23_Witness).
C23_Step ==
    \A w \in Workers :
        (workers[w].pc = "cc_insert" /\ workers'[w].pc = "cc_disposicion")
        => \E k \in db'.consultas :
               /\ k.id = workers'[w].nuevo
               /\ k.id_triaje = workers[w].id_triaje
               /\ k \notin db.consultas
               /\ db'.consultas = db.consultas \cup {k}

C23_Theorem == [][C23_Step]_vars

C23_Witness ==
    /\ \A w \in Workers :
           /\ workers[w].pc = "done" /\ workers[w].status = 201
           /\ workers[w].id_triaje = workers[1].id_triaje
           /\ \E k \in db.consultas :
                  k.id = workers[w].nuevo /\ k.id_triaje = workers[w].id_triaje
    /\ workers[1].nuevo # workers[2].nuevo
    /\ Cardinality({k \in db.consultas :
                       k.id_triaje = workers[1].id_triaje}) = 2

\* C24: a delete-veterinarian call for a veterinarian whose disposition is
\* Ocupado is rejected and the veterinarian stays stored; a veterinarian is
\* only ever removed while its disposition is not Ocupado.
C24_Step ==
    /\ (/\ Completes("delete_veterinario")
        /\ \E v \in pre.veterinarios :
               v.id = call'.id_veterinario /\ v.disposicion = "Ocupado")
       => (call'.status = 400 /\ db' = pre)
    /\ \A v \in db.veterinarios :
           (\A u \in db'.veterinarios : u.id # v.id)
           => v.disposicion # "Ocupado"

C24_Theorem == [][C24_Step]_vars

C24_Witness ==
    /\ call.pc = "done" /\ call.op = "delete_veterinario" /\ call.status = 400
    /\ \E v \in db.veterinarios :
           v.id = call.id_veterinario /\ v.disposicion = "Ocupado"

\* C25: cancelar_cita and marcar_atendida change the state of an appointment
\* only when it is Programada (to Cancelada and to Atendida); applied to an
\* appointment already Cancelada or Atendida they leave it as it is, so both
\* states are terminal under the two operations.
C25_Step ==
    (Completes("cancelar_cita") \/ Completes("marcar_atendida"))
    => LET antes == get(pre.citas, call'.id_otro)
           nuevo_estado == IF call'.op = "cancelar_cita"
                           THEN "Cancelada" ELSE "Atendida"
       IN  /\ \A c \in pre.citas :
                  c.estado_cita \in {"Cancelada", "Atendida"}
                  => c \in db'.citas
           /\ \/ db' = pre
              \/ /\ antes.id # 0 /\ antes.estado_cita = "Programada"
                 /\ db' = [pre EXCEPT !.citas =
                              Replace(@, [antes EXCEPT
                                              !.estado_cita = nuevo_estado])]
           /\ (antes.id # 0 /\ antes.estado_cita = "Programada"
               /\ call'.status = 200)
              => get(db'.citas, call'.id_otro).estado_cita = nuevo_estado

C25_Theorem == [][C25_Step]_vars

C25_Witness ==
    /\ call.pc = "done" /\ call.op = "cancelar_cita" /\ call.status = 200
    /\ get(db.citas, call.id_otro).id # 0
    /\ get(db.citas, call.id_otro).estado_cita = "Atendida"

\* C26: a create-pet call that names a breed which does not exist is rejected
\* with an error and stores neither a pet nor an owner-pet relation.
C26_Claim ==
    [][(Completes("create_mascota") /\ call'.id_raza \notin Razas)
       => /\ call'.status >= 400
          /\ db'.mascotas = pre.mascotas
          /\ db'.cliente_mascota = pre.cliente_mascota]_vars

\* C27: in every state reached by create-triage, create-consultation and
\* finalize calls in which every create-consultation completed all its steps,
\* the veterinarian of every consultation whose parent request is En atencion
\* is Ocupado.
C27_Claim ==
    call.pc = "done"
    => \A k \in db.consultas, t \in db.triajes, r \in db.solicitudes :
           (k.id_triaje = t.id /\ t.id_solicitud = r.id
            /\ r.estado = "En atencion")
           => \E v \in db.veterinarios :
                  v.id = k.id_veterinario /\ v.disposicion = "Ocupado"

\* C28: under the operations of the clinical chain alone, a request that is
\* Completada never changes its status again.
C28_Claim ==
    [][\A r \in db.solicitudes :
           r.estado = "Completada"
           => \E r2 \in db'.solicitudes :
                  r2.id = r.id /\ r2.estado = "Completada"]_vars

\* C29: a request that is Cancelada stays Cancelada across every
\* create-consultation and every finalize call: neither moves it to En
\* atencion or Completada.
C29_Claim ==
    [][call'.op \in {"create_consulta", "finalizar_consulta"}
       => \A r \in db.solicitudes :
              r.estado = "Cancelada"
              => \E r2 \in db'.solicitudes :
                     r2.id = r.id /\ r2.estado = "Cancelada"]_vars

\* the veterinarian of the consultation a create-consultation or finalize
\* step is about, and the request reached through its triage (0: none)
VeterinarioDeLaLlamada ==
    IF call'.op = "create_consulta" THEN call'.id_veterinario
    ELSE IF \E k \in db.consultas : k.id = call'.id_consulta
    THEN get(db.consultas, call'.id_consulta).id_veterinario
    ELSE 0
TriajeDeLaLlamada ==
    IF call'.op = "create_consulta" THEN call'.id_triaje
    ELSE IF \E k \in db.consultas : k.id = call'.id_consulta
    THEN get(db.consultas, call'.id_consulta).id_triaje
    ELSE 0
SolicitudDeLaLlamada ==
    IF \E t \in db.triajes : t.id = TriajeDeLaLlamada
    THEN get(db.triajes, TriajeDeLaLlamada).id_solicitud
    ELSE 0

\* C30: a create-consultation or finalize call for consultation c changes the
\* disposition of no veterinarian other than c's and the status of no request
\* other than the one reached through c's triage.
C30_Step ==
    call'.op \in {"create_consulta", "finalizar_consulta"}
    => /\ \A v \in db.veterinarios :
              v.id # VeterinarioDeLaLlamada => v \in db'.veterinarios
       /\ \A r \in db.solicitudes :
              r.id # SolicitudDeLaLlamada => r \in db'.solicitudes
       /\ {v.id : v \in db'.veterinarios} = {v.id : v \in db.veterinarios}
       /\ {r.id : r \in db'.solicitudes} = {r.id : r \in db.solicitudes}

C30_Theorem == [][C30_Step]_vars

C30_Witness ==
    /\ call.pc = "done" /\ call.op = "finalizar_consulta" /\ call.status = 200
    /\ \E v \in db.veterinarios :
           v.id = call.id_veterinario /\ v.disposicion = "Libre"
    /\ \E v \in db.veterinarios :
           v.id # call.id_veterinario /\ v.disposicion = "Ocupado"
    /\ \E r \in db.solicitudes :
           r.id = call.id_solicitud /\ r.estado = "Completada"
    /\ \E r \in db.solicitudes :
           r.id # call.id_solicitud /\ r.estado = "En atencion"
====
